---- MODULE Spec2Model ----
(***************************************************************************)
(* State-machine model of the React Native front end of the chat-bot form  *)
(* generator: App (view switch, schema, formData, apiResults, loading),    *)
(* DynamicForm (local formData, validationErrors), ChatInterface (messages,*)
(* isLoading, isComplete, followUpQuestions, conversationId) and the       *)
(* ApiService calls they await (parseSchema, sendChatMessage,              *)
(* forwardToExternalApi), under the specification Spec; and of the         *)
(* VoiceService singleton with the VoiceButton, the recordings and the     *)
(* speech utterances it drives, under the specification VoiceSpec.         *)
(*                                                                         *)
(* JavaScript values are tagged records so that values of different kinds  *)
(* can be compared: [s |-> ..] string, [n |-> ..] number, [b |-> ..]       *)
(* boolean, [z |-> ..] null / undefined, [o |-> f] object with f a         *)
(* function from its keys to values.                                       *)
(***************************************************************************)
EXTENDS Integers, Sequences, FiniteSets, TLC

(***************************************************************************)
(* Bounds of the model.                                                    *)
(***************************************************************************)
\* user turns that one mounted conversation may hold
MaxTurns == 2
\* chat requests still in flight whose ChatInterface instance was unmounted
MaxOrphans == 1
\* invocations of handleFormSubmit in one run
MaxForwards == 2
\* parseSchema requests in flight at one time (with two, a second press of
\* the modal's Load button overlaps the first request)
MaxParse == 1
\* Recording objects created in one run
MaxRecordings == 2
\* utterances handed to Speech.speak in one run
MaxUtterances == 2
\* saveUserPreferences calls awaiting AsyncStorage at one time
MaxSaves == 2

(***************************************************************************)
(* JavaScript values.                                                      *)
(***************************************************************************)
Str(t) == [s |-> t]
Num(i) == [n |-> i]
Bool(v) == [b |-> v]
Null == [z |-> "null"]
Undefined == [z |-> "undefined"]
Obj(f) == [o |-> f]
EmptyMap == [k \in {} |-> Null]
EmptyObj == Obj(EmptyMap)

IsObj(v) == DOMAIN v = {"o"}
Keys(v) == DOMAIN v.o

\* !v of JavaScript
Falsy(v) ==
    \/ v = Null
    \/ v = Undefined
    \/ v = Str("")
    \/ v = Num(0)
    \/ v = Bool(FALSE)

\* v[k] of JavaScript on an object, v?.[k] on null or undefined
Get(v, k) ==
    IF IsObj(v) /\ k \in Keys(v) THEN v.o[k] ELSE Undefined

\* { ...v, [k]: x } of JavaScript: spreading null or undefined adds nothing
SpreadPut(v, k, x) ==
    LET f == IF IsObj(v) THEN v.o ELSE EmptyMap
    IN  Obj([y \in (DOMAIN f) \cup {k} |-> IF y = k THEN x ELSE f[y]])

\* the value read at a path of one or two names
ReadPath(v, path) ==
    IF Len(path) = 1 THEN Get(v, path[1])
    ELSE Get(Get(v, path[1]), path[2])

(***************************************************************************)
(* Schema descriptors, as the backend returns them in schema_data.         *)
(***************************************************************************)
Leaf(nm, ty, req) ==
    [name |-> nm, type |-> ty, required |-> req,
     nested_schema |-> [fields |-> << >>]]
Nested(nm, req, kids) ==
    [name |-> nm, type |-> "object", required |-> req,
     nested_schema |-> [fields |-> kids]]

AddressKids == << Leaf("city", "string", TRUE), Leaf("zip", "string", FALSE) >>

SchemaFields(id) ==
    IF id = "scalar"
    THEN << Leaf("name", "string", TRUE),
            Leaf("age", "integer", TRUE),
            Leaf("is_active", "boolean", TRUE) >>
    ELSE IF id = "nested"
    THEN << Leaf("name", "string", TRUE),
            Nested("address", FALSE, AddressKids) >>
    ELSE << >>

Schemas == {"scalar", "nested"}
NoSchema == "none"

SeqRange(q) == { q[i] : i \in 1..Len(q) }

(***************************************************************************)
(* FormField: the value an input control hands to onChange.                *)
(***************************************************************************)
StringTexts == {"", "Ann"}
NumericTexts == {"30", "0", "x"}

\* parseInt(text), NaN being reported by ok = FALSE
ParseInt(text) ==
    IF text = "30" THEN [ok |-> TRUE, v |-> 30]
    ELSE IF text = "0" THEN [ok |-> TRUE, v |-> 0]
    ELSE [ok |-> FALSE, v |-> 0]

\* onChangeText of the numeric TextInput: isNaN(numValue) ? null : numValue
NumericOnChange(text) ==
    LET p == ParseInt(text) IN IF p.ok THEN Num(p.v) ELSE Null

\* the raw inputs a control of the given field type can produce
LeafInputs(ty) ==
    IF ty = "string" THEN { Str(t) : t \in StringTexts }
    ELSE IF ty = "integer" THEN { NumericOnChange(t) : t \in NumericTexts }
    ELSE IF ty = "boolean" THEN { Bool(TRUE), Bool(FALSE) }
    ELSE {}

\* onChange of a nested FormField: { ...value, [fieldName]: fieldValue }
NestedOnChangeAlone(value, fieldName, fieldValue) ==
    SpreadPut(Null, fieldName, fieldValue)
NestedOnChange(value, fieldName, fieldValue) ==
    SpreadPut(value, fieldName, fieldValue)

(***************************************************************************)
(* DynamicForm.                                                            *)
(***************************************************************************)
\* setFormData(prev => ({ ...prev, [fieldName]: value }))
HandleFieldChangeDataOldWins(prev, fieldName, value) ==
    IF IsObj(prev) /\ fieldName \in Keys(prev) THEN prev
    ELSE SpreadPut(prev, fieldName, value)
HandleFieldChangeData(prev, fieldName, value) ==
    SpreadPut(prev, fieldName, value)

\* the names validateForm puts into errors
ValidateForm(id, data) ==
    { f.name : f \in { g \in SeqRange(SchemaFields(id)) :
                         g.required /\ Falsy(Get(data, g.name)) } }

(***************************************************************************)
(* Backend answers.  The backend is reached over HTTP and is not part of   *)
(* the front end; its answers are drawn from these sets.                   *)
(***************************************************************************)
\* structured_data of a chat response: absent, empty, partial or complete
ChatData ==
    { Null,
      EmptyObj,
      Obj([k \in {"age"} |-> Num(30)]),
      Obj([k \in {"name", "age", "is_active"} |->
              IF k = "name" THEN Str("Ann")
              ELSE IF k = "age" THEN Num(30) ELSE Bool(TRUE)]),
      Obj([k \in {"name", "address"} |->
              IF k = "name" THEN Str("Ann")
              ELSE Obj([c \in {"zip"} |-> Str("Ann")])]) }

\* status code of an envelope whose external call failed at transport level
SentinelStatus == 0

\* the envelopes the backend's forwarder answers with
ForwardOutcomes ==
    { [status_code |-> 200, success |-> TRUE],
      [status_code |-> 500, success |-> FALSE],
      [status_code |-> SentinelStatus, success |-> FALSE] }

NoResult == [none |-> TRUE]
NoReq == [none |-> TRUE]

(***************************************************************************)
(* State.                                                                  *)
(***************************************************************************)
VARIABLES
    \* App
    currentView, schema, formData, apiResults, loading,
    \* DynamicForm (mounted while currentView = "form")
    dfData, validationErrors,
    \* ChatInterface (mounted while currentView = "chat")
    messages, isLoading, conversationId, followUpQuestions, isComplete,
    \* the custom-model modal is shown
    modalVisible,
    \* requests in flight: parseSchema of loadSampleModel and of
    \* loadCustomModel, forwardToExternalApi, sendChatMessage of unmounted
    \* ChatInterface instances
    parsePending, customPending, fwdReqs, orphans,
    \* 'Form Complete' alerts waiting for OK, and a render that threw
    alertPending, crashed,
    \* forwardToExternalApi invocations and apiClient.post('/forward') calls
    fwdCalls, posts,
    \* history: the last operation and the alert it raised, an open reset,
    \* values collected by chat
    lastOp, lastAlert, resetOpen, collected,
    \* VoiceService
    recording, svcIsRecording, isPlaying,
    \* expo-av Recording objects, their audio files, files
    recState, files,
    \* VoiceService calls that are awaiting
    startCalls, stopCalls, transcribeCalls,
    \* VoiceButton
    btnMounted, btnIsRecording, isTranscribing, isInitialized, maxTimeTimer,
    \* expo-speech: utterances queued or spoken, and events not yet delivered
    speechQueue, speechEvents, utterances,
    \* VoiceService speech settings in tenths (10 is 1.0), the preferences in
    \* AsyncStorage, saves awaiting AsyncStorage, and the last settings call
    speechRate, speechPitch, storedPrefs, savesInFlight, settingsOp

appVars == << currentView, schema, formData, apiResults, loading >>
formVars == << dfData, validationErrors >>
chatVars == << messages, isLoading, conversationId, followUpQuestions,
               isComplete >>
netVars == << parsePending, customPending, fwdReqs, orphans >>
modalVars == << modalVisible >>
voiceVars == << recording, svcIsRecording, isPlaying, recState, files,
                startCalls, stopCalls, transcribeCalls,
                btnMounted, btnIsRecording, isTranscribing, isInitialized,
                maxTimeTimer, speechQueue, speechEvents, utterances,
                speechRate, speechPitch, storedPrefs, savesInFlight,
                settingsOp >>
countVars == << fwdCalls, posts >>
vars == << appVars, formVars, chatVars, modalVars, netVars, alertPending,
           crashed, countVars, lastOp, lastAlert, resetOpen, collected,
           voiceVars >>

Op(o, p, v, f) == [op |-> o, path |-> p, val |-> v, flag |-> f]

UserTurns(msgs) == Cardinality({ i \in 1..Len(msgs) : msgs[i] = "user" })

\* the loading overlay and the custom-model modal cover the views and the
\* navigation bar, a native alert is modal, and nothing is rendered after a
\* render has thrown
Blocked == loading \/ modalVisible \/ alertPending > 0 \/ crashed

AppInit ==
    /\ currentView = "home"
    /\ schema = NoSchema
    /\ formData = EmptyObj
    /\ apiResults = NoResult
    /\ loading = TRUE
    /\ dfData = EmptyObj
    /\ validationErrors = {}
    /\ messages = << >>
    /\ isLoading = FALSE
    /\ conversationId = "none"
    /\ followUpQuestions = 0
    /\ isComplete = FALSE
    /\ modalVisible = FALSE
    /\ parsePending = 1
    /\ customPending = 0
    /\ fwdReqs = {}
    /\ orphans = 0
    /\ alertPending = 0
    /\ crashed = FALSE
    /\ fwdCalls = 0
    /\ posts = 0
    /\ lastOp = Op("init", << >>, Null, FALSE)
    /\ lastAlert = "none"
    /\ resetOpen = FALSE
    /\ collected = FALSE

(***************************************************************************)
(* App render: which component is mounted after the view or the            *)
(* application-level formData changed.  v is the new view and fd the new   *)
(* formData.                                                               *)
(***************************************************************************)
FormShown(v, sch) == v = "form" /\ sch # NoSchema
ChatShown(v, sch) == v = "chat" /\ sch # NoSchema

\* DynamicForm: useState(initialData), the initialData effect, and a render
\* that reads formData[field.name]
RenderForm(v, sch, fd) ==
    IF FormShown(v, sch)
    THEN /\ dfData' = fd
         /\ validationErrors' =
               IF FormShown(currentView, schema) THEN validationErrors ELSE {}
         /\ crashed' = ~IsObj(fd)
    ELSE /\ dfData' = EmptyObj
         /\ validationErrors' = {}
         /\ crashed' = FALSE

\* ChatInterface: state is created on mount (with the welcome effect), kept
\* while mounted and dropped on unmount; a request of an unmounted instance
\* stays in flight
RenderChat(v, sch) ==
    IF ChatShown(v, sch)
    THEN IF ChatShown(currentView, schema)
         THEN UNCHANGED << chatVars, orphans, resetOpen >>
         ELSE /\ messages' = << "welcome" >>
              /\ isLoading' = FALSE
              /\ conversationId' = "none"
              /\ followUpQuestions' = 0
              /\ isComplete' = FALSE
              /\ UNCHANGED << orphans, resetOpen >>
    ELSE /\ messages' = << >>
         /\ isLoading' = FALSE
         /\ conversationId' = "none"
         /\ followUpQuestions' = 0
         /\ isComplete' = FALSE
         /\ resetOpen' = FALSE
         /\ IF ChatShown(currentView, schema) /\ isLoading
            THEN orphans < MaxOrphans /\ orphans' = orphans + 1
            ELSE orphans' = orphans

Render(v, sch, fd) == RenderForm(v, sch, fd) /\ RenderChat(v, sch)

(***************************************************************************)
(* App: model load.                                                        *)
(***************************************************************************)
\* the ValueMap a successful model load leaves, given the one before it:
\* setFormData({})
ModelLoadValuesKept(old) == old
ModelLoadValues(old) == EmptyObj

\* the try body of loadSampleModel and of loadCustomModel after the await
\* resolved with schema_data sch
ModelLoaded(sch) ==
    /\ schema' = sch
    /\ formData' = ModelLoadValues(formData)
    /\ apiResults' = NoResult
    /\ currentView' = "form"
    /\ Render("form", sch, formData')
    /\ collected' = FALSE
    /\ lastAlert' = "none"

\* the catch block of loadSampleModel and of loadCustomModel
ModelLoadFailed ==
    /\ lastAlert' = "loadError"
    /\ UNCHANGED << currentView, schema, formData, apiResults, formVars,
                    chatVars, orphans, crashed, resetOpen, collected >>

\* loadSampleModel up to the await of ApiService.parseSchema
LoadSampleModel ==
    /\ ~Blocked
    /\ currentView = "home"
    /\ parsePending + customPending < MaxParse
    /\ loading' = TRUE
    /\ parsePending' = parsePending + 1
    /\ lastOp' = Op("loadSampleModel", << >>, Null, FALSE)
    /\ lastAlert' = "none"
    /\ UNCHANGED << currentView, schema, formData, apiResults, formVars,
                    chatVars, modalVars, customPending, fwdReqs, orphans,
                    alertPending, crashed, countVars, resetOpen, collected,
                    voiceVars >>

\* loadSampleModel after the await: try body, or catch, then finally
ParseSchemaResponse ==
    /\ ~crashed
    /\ parsePending > 0
    /\ parsePending' = parsePending - 1
    /\ loading' = FALSE
    /\ \/ \E sch \in Schemas :
             /\ ModelLoaded(sch)
             /\ lastOp' = Op("parseSchema", << sch >>,
                             Bool(formData # EmptyObj), TRUE)
       \/ /\ ModelLoadFailed
          /\ lastOp' = Op("parseSchema", << >>, Null, FALSE)
    /\ UNCHANGED << modalVars, customPending, fwdReqs, alertPending,
                    countVars, voiceVars >>

\* the 'Load Custom Model' button of the home view
OpenModal ==
    /\ ~Blocked
    /\ currentView = "home"
    /\ modalVisible' = TRUE
    /\ lastOp' = Op("openModal", << >>, Null, FALSE)
    /\ lastAlert' = "none"
    /\ UNCHANGED << appVars, formVars, chatVars, netVars, alertPending,
                    crashed, countVars, resetOpen, collected, voiceVars >>

\* the Cancel button of the modal, or onRequestClose
CloseModal ==
    /\ modalVisible
    /\ alertPending = 0
    /\ ~crashed
    /\ modalVisible' = FALSE
    /\ lastOp' = Op("closeModal", << >>, Null, FALSE)
    /\ lastAlert' = "none"
    /\ UNCHANGED << appVars, formVars, chatVars, netVars, alertPending,
                    crashed, countVars, resetOpen, collected, voiceVars >>

\* loadCustomModel up to the await of ApiService.parseSchema, or its early
\* return when the name or the definition is blank; the modal lies above
\* the loading overlay
LoadCustomModelWithin(limit) ==
    /\ modalVisible
    /\ alertPending = 0
    /\ ~crashed
    /\ \E filled \in BOOLEAN :
          IF filled
          THEN /\ parsePending + customPending < limit
               /\ loading' = TRUE
               /\ customPending' = customPending + 1
               /\ lastOp' = Op("loadCustomModel", << >>, Null, TRUE)
               /\ lastAlert' = "none"
          ELSE /\ lastOp' = Op("loadCustomModel", << >>, Null, FALSE)
               /\ lastAlert' = "modalError"
               /\ UNCHANGED << loading, customPending >>
    /\ UNCHANGED << currentView, schema, formData, apiResults, formVars,
                    chatVars, modalVars, parsePending, fwdReqs, orphans,
                    alertPending, crashed, countVars, resetOpen, collected,
                    voiceVars >>

LoadCustomModel == LoadCustomModelWithin(MaxParse)

\* the modal's Load button where it can be pressed once more while an
\* earlier parseSchema request is outstanding
LoadCustomModelAgain == LoadCustomModelWithin(MaxParse + 1)

\* loadCustomModel after the await: try body, or catch, then finally
CustomParseResponse ==
    /\ ~crashed
    /\ customPending > 0
    /\ customPending' = customPending - 1
    /\ loading' = FALSE
    /\ \/ \E sch \in Schemas :
             /\ ModelLoaded(sch)
             /\ modalVisible' = FALSE
             /\ lastOp' = Op("customParse", << sch >>,
                             Bool(formData # EmptyObj), TRUE)
       \/ /\ ModelLoadFailed
          /\ modalVisible' = modalVisible
          /\ lastOp' = Op("customParse", << >>, Null, FALSE)
    /\ UNCHANGED << parsePending, fwdReqs, alertPending, countVars,
                    voiceVars >>

\* disabled={!schema} of the Form and Chat buttons, disabled={!apiResults}
\* of the Results button
NavEnabledAlways(v) == TRUE
NavEnabled(v) ==
    /\ v \in {"form", "chat"} => schema # NoSchema
    /\ v = "results" => apiResults # NoResult

\* renderNavigationBar: the four buttons
Navigate ==
    /\ ~Blocked
    /\ \E v \in {"home", "form", "chat", "results"} :
          /\ NavEnabled(v)
          /\ v # currentView
          /\ currentView' = v
          /\ Render(v, schema, formData)
          /\ lastOp' = Op("navigate", << v >>, Null, FALSE)
    /\ lastAlert' = "none"
    /\ UNCHANGED << schema, formData, apiResults, loading, modalVars,
                    parsePending, customPending, fwdReqs, alertPending,
                    countVars, collected, voiceVars >>

(***************************************************************************)
(* DynamicForm: field input and submit.                                    *)
(***************************************************************************)
\* a FormField control fires onChange; handleFieldChange stores the value,
\* clears the field's validation error, and the formData effect hands the
\* new map to App through onDataChange
FormFieldInput ==
    /\ ~Blocked
    /\ FormShown(currentView, schema)
    /\ \E i \in 1..Len(SchemaFields(schema)) :
         LET field == SchemaFields(schema)[i]
             value == Get(dfData, field.name)
         IN  /\ \/ \E x \in LeafInputs(field.type) :
                      /\ dfData' = HandleFieldChangeData(dfData,
                                                         field.name, x)
                      /\ lastOp' = Op("setField", << field.name >>, x,
                                      FALSE)
                \/ /\ field.type = "object"
                   /\ \E j \in 1..Len(field.nested_schema.fields) :
                        LET kid == field.nested_schema.fields[j]
                        IN  \E x \in LeafInputs(kid.type) :
                              /\ dfData' = HandleFieldChangeData(dfData,
                                     field.name,
                                     NestedOnChange(value, kid.name, x))
                              /\ lastOp' = Op("setField",
                                     << field.name, kid.name >>, x, FALSE)
             /\ validationErrors' = validationErrors \ {field.name}
    /\ formData' = dfData'
    /\ lastAlert' = "none"
    /\ UNCHANGED << currentView, schema, apiResults, loading, chatVars,
                    modalVars, netVars, alertPending, crashed, countVars,
                    resetOpen, collected, voiceVars >>

\* if (validateForm()) of handleSubmit
SubmitAllowedUnchecked(id, data) == TRUE
SubmitAllowed(id, data) == ValidateForm(id, data) = {}

\* handleSubmit: validateForm, then onSubmit(formData), which is
\* App.handleFormSubmit up to the await of forwardToExternalApi, or the
\* 'Validation Error' alert
HandleSubmit ==
    /\ ~Blocked
    /\ FormShown(currentView, schema)
    /\ validationErrors' = ValidateForm(schema, dfData)
    /\ IF SubmitAllowed(schema, dfData)
       THEN /\ fwdCalls < MaxForwards
            /\ loading' = TRUE
            /\ fwdCalls' = fwdCalls + 1
            /\ posts' = posts + 1
            /\ fwdReqs' = fwdReqs \cup {[seq |-> fwdCalls + 1]}
            /\ lastOp' = Op("handleSubmit", << >>, dfData, TRUE)
            /\ lastAlert' = "none"
       ELSE /\ lastOp' = Op("handleSubmit", << >>, dfData, FALSE)
            /\ lastAlert' = "validationError"
            /\ UNCHANGED << loading, fwdCalls, posts, fwdReqs >>
    /\ UNCHANGED << currentView, schema, formData, apiResults, dfData,
                    chatVars, modalVars, parsePending, customPending,
                    orphans, alertPending, crashed, resetOpen, collected,
                    voiceVars >>

(***************************************************************************)
(* ApiService.forwardToExternalApi and the rest of App.handleFormSubmit.   *)
(***************************************************************************)
\* the catch block of forwardToExternalApi: the request that is in flight
\* when the block is left (it throws, so none)
ForwardCatchRetry(req) == req
ForwardCatch(req) == NoReq

\* the awaited post of one invocation settles: resolved with the backend's
\* envelope, or rejected (backend unreachable, timeout, HTTP error of the
\* backend)
ForwardResponse ==
    /\ ~crashed
    /\ \E req \in fwdReqs :
        /\ \/ \E e \in ForwardOutcomes :
                 /\ apiResults' = [status_code |-> e.status_code,
                                   success |-> e.success, seq |-> req.seq]
                 /\ currentView' = "results"
                 /\ Render("results", schema, formData)
                 /\ fwdReqs' = fwdReqs \ {req}
                 /\ loading' = FALSE
                 /\ posts' = posts
                 /\ lastOp' = Op("forwardResponse", << >>, Num(req.seq), TRUE)
                 /\ lastAlert' = "none"
           \/ /\ IF ForwardCatch(req) = NoReq
                 THEN /\ fwdReqs' = fwdReqs \ {req}
                      /\ loading' = FALSE
                      /\ posts' = posts
                 ELSE /\ fwdReqs' = (fwdReqs \ {req}) \cup {ForwardCatch(req)}
                      /\ loading' = loading
                      /\ posts' = posts + 1
              /\ lastOp' = Op("forwardResponse", << >>, Num(req.seq), FALSE)
              /\ lastAlert' = "submitError"
              /\ UNCHANGED << currentView, apiResults, formVars, chatVars,
                              orphans, crashed, resetOpen >>
    /\ UNCHANGED << schema, formData, modalVars, parsePending, customPending,
                    alertPending, fwdCalls, collected, voiceVars >>

(***************************************************************************)
(* ChatInterface.                                                          *)
(***************************************************************************)
\* what App.formData is after a resolved chat response has been handled:
\* onDataUpdate(structured_data) when it is truthy, then
\* onComplete(structured_data) when is_complete, both being setFormData
ChatResponseData(old, data, complete) ==
    IF complete THEN data
    ELSE IF ~Falsy(data) THEN data
    ELSE old

\* sendMessage up to the await of ApiService.sendChatMessage, called by the
\* Send button or by a follow-up question button (a blank message returns
\* before any state is touched)
SendMessage ==
    /\ ~Blocked
    /\ ChatShown(currentView, schema)
    /\ ~isLoading
    /\ UserTurns(messages) < MaxTurns
    /\ \E followUp \in BOOLEAN :
          /\ followUp => followUpQuestions > 0
          /\ lastOp' = Op("sendMessage", << >>, Null, followUp)
    /\ messages' = Append(messages, "user")
    /\ isLoading' = TRUE
    /\ resetOpen' = FALSE
    /\ lastAlert' = "none"
    /\ UNCHANGED << appVars, formVars, conversationId, followUpQuestions,
                    isComplete, modalVars, netVars, alertPending, crashed,
                    countVars, collected, voiceVars >>

\* sendMessage after the await, in the instance that is still mounted
ChatResponse ==
    /\ ~crashed
    /\ ChatShown(currentView, schema)
    /\ isLoading
    /\ isLoading' = FALSE
    /\ \/ \E data \in ChatData, complete \in BOOLEAN, questions \in 0..1 :
             /\ messages' = Append(messages, "assistant")
             /\ conversationId' = "conv"
             /\ followUpQuestions' = questions
             /\ isComplete' = complete
             /\ formData' = ChatResponseData(formData, data, complete)
             /\ alertPending' = IF complete THEN alertPending + 1
                                ELSE alertPending
             /\ collected' = IF formData' = formData THEN collected
                             ELSE IsObj(formData') /\ formData' # EmptyObj
             /\ lastOp' = Op(IF complete THEN "chatComplete" ELSE "chatTurn",
                             << >>, data, TRUE)
             /\ lastAlert' = IF complete THEN "formComplete" ELSE "none"
       \/ /\ messages' = Append(messages, "error")
          /\ lastOp' = Op("chatTurn", << >>, Null, FALSE)
          /\ lastAlert' = "chatError"
          /\ UNCHANGED << formData, conversationId, followUpQuestions,
                          isComplete, alertPending, collected >>
    /\ UNCHANGED << currentView, schema, apiResults, loading, formVars,
                    modalVars, netVars, crashed, countVars, resetOpen,
                    voiceVars >>

\* sendMessage after the await, in an instance that was unmounted: its state
\* setters do nothing, onDataUpdate and onComplete still reach App
OrphanChatResponse ==
    /\ ~crashed
    /\ orphans > 0
    /\ orphans' = orphans - 1
    /\ \/ \E data \in ChatData, complete \in BOOLEAN :
             /\ formData' = ChatResponseData(formData, data, complete)
             /\ alertPending' = IF complete THEN alertPending + 1
                                ELSE alertPending
             /\ collected' = IF formData' = formData THEN collected
                             ELSE IsObj(formData') /\ formData' # EmptyObj
             /\ RenderForm(currentView, schema, formData')
             /\ lastOp' = Op("orphanResponse", << >>, data, complete)
             /\ lastAlert' = IF complete THEN "formComplete" ELSE "none"
       \/ /\ lastOp' = Op("orphanResponse", << >>, Null, FALSE)
          /\ lastAlert' = "chatError"
          /\ UNCHANGED << formData, alertPending, collected, formVars,
                          crashed >>
    /\ UNCHANGED << currentView, schema, apiResults, loading, chatVars,
                    modalVars, parsePending, customPending, fwdReqs,
                    countVars, resetOpen, voiceVars >>

\* clearConversation, the 'Clear' button of its alert pressed
ClearConversation ==
    /\ ~Blocked
    /\ ChatShown(currentView, schema)
    /\ messages' = << >>
    /\ conversationId' = "none"
    /\ followUpQuestions' = 0
    /\ isComplete' = FALSE
    /\ formData' = EmptyObj
    /\ resetOpen' = TRUE
    /\ collected' = FALSE
    /\ lastOp' = Op("clearConversation", << >>, Null, FALSE)
    /\ lastAlert' = "none"
    /\ UNCHANGED << currentView, schema, apiResults, loading, formVars,
                    isLoading, modalVars, netVars, alertPending, crashed,
                    countVars, voiceVars >>

\* the OK button of the 'Form Complete' alert of App.handleChatComplete
FormCompleteOk ==
    /\ ~crashed
    /\ alertPending > 0
    /\ alertPending' = alertPending - 1
    /\ currentView' = "form"
    /\ Render("form", schema, formData)
    /\ lastOp' = Op("formCompleteOk", << >>, Null, FALSE)
    /\ lastAlert' = "none"
    /\ UNCHANGED << schema, formData, apiResults, loading, modalVars,
                    parsePending, customPending, fwdReqs, countVars,
                    collected, voiceVars >>

(***************************************************************************)
(* VoiceService (a singleton), expo-av recordings, expo-speech, and the    *)
(* VoiceButton that drives them.                                           *)
(***************************************************************************)
NoRecording == 0
Recordings == 1..MaxRecordings
Created == { r \in Recordings : recState[r] # "none" }

\* speech settings are kept in tenths: 10 is the rate or pitch 1.0
DEFAULT_SPEECH_RATE == 10
DEFAULT_SPEECH_PITCH == 10
RateLow == 1
RateHigh == 20
PitchLow == 5
PitchHigh == 20
\* the numbers a caller passes to setSpeechRate and setSpeechPitch
SettingInputs == {-3, 0, 1, 4, 5, 12, 20, 21, 30}

MathMax(a, b) == IF a >= b THEN a ELSE b
MathMin(a, b) == IF a <= b THEN a ELSE b

\* the value setSpeechRate assigns to this.speechRate
ClampRateLowOnly(rate) == MathMax(RateLow, rate)
ClampRate(rate) == MathMax(RateLow, MathMin(RateHigh, rate))
\* the value setSpeechPitch assigns to this.speechPitch
ClampPitch(pitch) == MathMax(PitchLow, MathMin(PitchHigh, pitch))

\* the preferences object saveUserPreferences builds before it awaits
Preferences(rate, pitch) == [speechRate |-> rate, speechPitch |-> pitch]
\* preferences.x || 1.0
OrDefault(x) == IF x = 0 THEN 10 ELSE x
\* loadUserPreferences: a stored object replaces both settings, no stored
\* object leaves them alone
LoadedRate ==
    IF storedPrefs = {} THEN speechRate
    ELSE OrDefault((CHOOSE p \in storedPrefs : TRUE).speechRate)
LoadedPitch ==
    IF storedPrefs = {} THEN speechPitch
    ELSE OrDefault((CHOOSE p \in storedPrefs : TRUE).speechPitch)

VoiceInit ==
    /\ recording = NoRecording
    /\ svcIsRecording = FALSE
    /\ isPlaying = FALSE
    /\ recState = [r \in Recordings |-> "none"]
    /\ files = {}
    /\ startCalls = {}
    /\ stopCalls = {}
    /\ transcribeCalls = {}
    /\ btnMounted = FALSE
    /\ btnIsRecording = FALSE
    /\ isTranscribing = FALSE
    /\ isInitialized = FALSE
    /\ maxTimeTimer = FALSE
    /\ speechQueue = << >>
    /\ speechEvents = 0
    /\ utterances = 0
    /\ speechRate = DEFAULT_SPEECH_RATE
    /\ speechPitch = DEFAULT_SPEECH_PITCH
    /\ storedPrefs = {}
    /\ savesInFlight = {}
    /\ settingsOp = [op |-> "constructor", arg |-> 0]

Init == AppInit /\ VoiceInit

appAll == << appVars, formVars, chatVars, modalVars, netVars, alertPending,
             crashed, countVars, lastOp, lastAlert, resetOpen, collected >>
recVars == << recording, svcIsRecording, recState, files, startCalls,
              stopCalls, transcribeCalls >>
btnVars == << btnMounted, btnIsRecording, isTranscribing, isInitialized,
              maxTimeTimer >>
speechVars == << isPlaying, speechQueue, speechEvents, utterances >>
settingsVars == << speechRate, speechPitch, storedPrefs, savesInFlight,
                  settingsOp >>

\* calls of a VoiceButton that has been unmounted: its state setters do
\* nothing from then on
Unlive(calls) == { [c EXCEPT !.live = FALSE] : c \in calls }

\* VoiceButton mounts: state is created and initializeVoiceService runs
MountButton ==
    /\ ~btnMounted
    /\ btnMounted' = TRUE
    /\ btnIsRecording' = FALSE
    /\ isTranscribing' = FALSE
    /\ maxTimeTimer' = FALSE
    /\ \E ok \in BOOLEAN :
          /\ isInitialized' = ok
          /\ IF ok
                THEN /\ speechRate' = LoadedRate
                     /\ speechPitch' = LoadedPitch
                     /\ settingsOp' = [op |-> "initialize", arg |-> 0]
                ELSE UNCHANGED << speechRate, speechPitch, settingsOp >>
    /\ UNCHANGED << appAll, storedPrefs, savesInFlight, recVars, speechVars >>

\* VoiceButton unmounts: clearTimers, then VoiceService.cleanup, which is
\* stopSpeaking and, if isRecording, stopRecording
UnmountButton ==
    /\ btnMounted
    /\ btnMounted' = FALSE
    /\ btnIsRecording' = FALSE
    /\ isTranscribing' = FALSE
    /\ isInitialized' = FALSE
    /\ maxTimeTimer' = FALSE
    /\ IF isPlaying
       THEN /\ speechQueue' = << >>
            /\ speechEvents' = speechEvents + Len(speechQueue)
            /\ isPlaying' = FALSE
       ELSE UNCHANGED << isPlaying, speechQueue, speechEvents >>
    /\ startCalls' = Unlive(startCalls)
    /\ transcribeCalls' = Unlive(transcribeCalls)
    /\ IF svcIsRecording /\ recording # NoRecording
       THEN stopCalls' = Unlive(stopCalls) \cup
                {[rec |-> recording, by |-> "cleanup", live |-> FALSE]}
       ELSE stopCalls' = Unlive(stopCalls)
    /\ UNCHANGED << appAll, settingsVars, recording, svcIsRecording, recState, files,
                    utterances >>

\* handlePress while not recording: handleStartRecording, which is
\* VoiceService.startRecording up to its first await, or its early return
\* when the service is recording already
PressStart ==
    /\ btnMounted
    /\ isInitialized
    /\ ~isTranscribing
    /\ ~btnIsRecording
    /\ IF svcIsRecording
       THEN /\ btnIsRecording' = TRUE
            /\ maxTimeTimer' = TRUE
            /\ UNCHANGED << recording, recState, startCalls >>
       ELSE /\ Cardinality(Created) < MaxRecordings
            /\ LET r == Cardinality(Created) + 1
               IN  /\ recording' = r
                   /\ recState' = [recState EXCEPT ![r] = "prepared"]
                   /\ startCalls' = startCalls \cup
                                       {[rec |-> r, live |-> TRUE]}
            /\ UNCHANGED << btnIsRecording, maxTimeTimer >>
    /\ UNCHANGED << appAll, settingsVars, svcIsRecording, files, stopCalls,
                    transcribeCalls, btnMounted, isTranscribing,
                    isInitialized, speechVars >>

\* startRecording after prepareToRecordAsync and startAsync: the rest of
\* the try body and of handleStartRecording, or the catch blocks; the
\* platform records with one Recording at a time
StartDone ==
    \E c \in startCalls :
        /\ startCalls' = startCalls \ {c}
        /\ \/ /\ \A q \in Recordings : recState[q] # "recording"
              /\ recState' = [recState EXCEPT ![c.rec] = "recording"]
              /\ files' = files \cup {c.rec}
              /\ svcIsRecording' = TRUE
              /\ recording' = recording
              /\ IF c.live
                 THEN btnIsRecording' = TRUE /\ maxTimeTimer' = TRUE
                 ELSE UNCHANGED << btnIsRecording, maxTimeTimer >>
           \/ /\ recState' = [recState EXCEPT ![c.rec] = "failed"]
              /\ svcIsRecording' = FALSE
              /\ recording' = NoRecording
              /\ UNCHANGED << files, btnIsRecording, maxTimeTimer >>
        /\ UNCHANGED << appAll, settingsVars, stopCalls, transcribeCalls, btnMounted,
                        isTranscribing, isInitialized, speechVars >>

\* handleStopRecording up to the await of VoiceService.stopRecording, or
\* through to its finally block when stopRecording returns null at once
HandleStopRecording(by) ==
    IF svcIsRecording /\ recording # NoRecording
    THEN /\ isTranscribing' = TRUE
         /\ stopCalls' = stopCalls \cup
                {[rec |-> recording, by |-> by, live |-> TRUE]}
         /\ UNCHANGED btnIsRecording
    ELSE /\ isTranscribing' = FALSE
         /\ btnIsRecording' = FALSE
         /\ UNCHANGED stopCalls

\* handlePress while recording
PressStop ==
    /\ btnMounted
    /\ ~isTranscribing
    /\ btnIsRecording
    /\ HandleStopRecording("press")
    /\ maxTimeTimer' = (maxTimeTimer /\ btnIsRecording')
    /\ UNCHANGED << appAll, settingsVars, recording, svcIsRecording, recState, files,
                    startCalls, transcribeCalls, btnMounted, isInitialized,
                    speechVars >>

\* the timeout of startMaxTimeTimer fires
MaxTimeFires ==
    /\ btnMounted
    /\ maxTimeTimer
    /\ maxTimeTimer' = FALSE
    /\ HandleStopRecording("timer")
    /\ UNCHANGED << appAll, settingsVars, recording, svcIsRecording, recState, files,
                    startCalls, transcribeCalls, btnMounted, isInitialized,
                    speechVars >>

\* stopRecording after stopAndUnloadAsync, where getURI is read from
\* this.recording as it is by then, with the rest of its caller:
\* transcribeAudio up to its await in handleStopRecording, nothing in
\* cleanup
StopDone ==
    \E c \in stopCalls :
        /\ stopCalls' = stopCalls \ {c}
        /\ svcIsRecording' = FALSE
        /\ recording' = NoRecording
        /\ \/ /\ recState[c.rec] = "recording"
              /\ recState' = [recState EXCEPT ![c.rec] = "stopped"]
              /\ IF recording = NoRecording
                 THEN /\ isTranscribing' = (isTranscribing /\ ~c.live)
                      /\ UNCHANGED << transcribeCalls, btnIsRecording,
                                      maxTimeTimer >>
                 ELSE /\ IF c.by = "cleanup"
                         THEN UNCHANGED transcribeCalls
                         ELSE transcribeCalls' = transcribeCalls \cup
                                 {[file |-> recording,
                                   live |-> c.live]}
                      /\ IF c.live
                         THEN btnIsRecording' = FALSE /\ maxTimeTimer' = FALSE
                         ELSE UNCHANGED << btnIsRecording, maxTimeTimer >>
                      /\ UNCHANGED isTranscribing
           \/ /\ isTranscribing' = (isTranscribing /\ ~c.live)
              /\ UNCHANGED << recState, transcribeCalls, btnIsRecording,
                              maxTimeTimer >>
        /\ UNCHANGED << appAll, settingsVars, files, startCalls, btnMounted, isInitialized,
                        speechVars >>

\* transcribeAudio settles: the file is deleted after the fetch or in the
\* catch block, then the finally block of handleStopRecording
TranscribeDone ==
    \E c \in transcribeCalls :
        /\ transcribeCalls' = transcribeCalls \ {c}
        /\ files' = files \ {c.file}
        /\ isTranscribing' = (isTranscribing /\ ~c.live)
        /\ UNCHANGED << appAll, settingsVars, recording, svcIsRecording, recState,
                        startCalls, stopCalls, btnMounted, btnIsRecording,
                        isInitialized, maxTimeTimer, speechVars >>

\* VoiceService.speak with non-blank text
Speak ==
    /\ utterances < MaxUtterances
    /\ utterances' = utterances + 1
    /\ IF isPlaying
       THEN /\ speechQueue' = << "queued" >>
            /\ speechEvents' = speechEvents + Len(speechQueue)
       ELSE /\ speechQueue' = Append(speechQueue, "queued")
            /\ speechEvents' = speechEvents
    /\ UNCHANGED << appAll, settingsVars, recVars, btnVars, isPlaying >>

\* the platform starts the utterance at the head of its queue: onStart
SpeechOnStart ==
    /\ speechQueue # << >>
    /\ Head(speechQueue) = "queued"
    /\ speechQueue' = << "speaking" >> \o Tail(speechQueue)
    /\ isPlaying' = TRUE
    /\ UNCHANGED << appAll, settingsVars, recVars, btnVars, speechEvents, utterances >>

\* the utterance being spoken ends: onDone, or onError
SpeechOnDone ==
    /\ speechQueue # << >>
    /\ Head(speechQueue) = "speaking"
    /\ speechQueue' = Tail(speechQueue)
    /\ isPlaying' = FALSE
    /\ UNCHANGED << appAll, settingsVars, recVars, btnVars, speechEvents, utterances >>

\* an utterance dropped by Speech.stop reports: onStopped
SpeechOnStopped ==
    /\ speechEvents > 0
    /\ speechEvents' = speechEvents - 1
    /\ isPlaying' = FALSE
    /\ UNCHANGED << appAll, settingsVars, recVars, btnVars, speechQueue, utterances >>

VoiceNext ==
    \/ MountButton
    \/ UnmountButton
    \/ PressStart
    \/ StartDone
    \/ PressStop
    \/ MaxTimeFires
    \/ StopDone
    \/ TranscribeDone
    \/ Speak
    \/ SpeechOnStart
    \/ SpeechOnDone
    \/ SpeechOnStopped

VoiceSpec == Init /\ [][VoiceNext]_vars

(***************************************************************************)
(* The speech settings of VoiceService: the setters, the asynchronous save *)
(* they start, and the load that initialize runs when VoiceButton mounts.  *)
(***************************************************************************)
\* setSpeechRate(rate): clamp, then saveUserPreferences up to its await
SetSpeechRate ==
    \E rate \in SettingInputs :
        /\ Cardinality(savesInFlight) < MaxSaves
        /\ speechRate' = ClampRate(rate)
        /\ savesInFlight' =
               savesInFlight \cup {Preferences(speechRate', speechPitch)}
        /\ settingsOp' = [op |-> "setSpeechRate", arg |-> rate]
        /\ UNCHANGED << appAll, recVars, btnVars, speechVars, speechPitch,
                        storedPrefs >>

\* setSpeechPitch(pitch): clamp, then saveUserPreferences up to its await
SetSpeechPitch ==
    \E pitch \in SettingInputs :
        /\ Cardinality(savesInFlight) < MaxSaves
        /\ speechPitch' = ClampPitch(pitch)
        /\ savesInFlight' =
               savesInFlight \cup {Preferences(speechRate, speechPitch')}
        /\ settingsOp' = [op |-> "setSpeechPitch", arg |-> pitch]
        /\ UNCHANGED << appAll, recVars, btnVars, speechVars, speechRate,
                        storedPrefs >>

\* AsyncStorage.setItem of one saveUserPreferences settles: the object is
\* stored, or the write fails and the error is logged
SaveDone ==
    \E prefs \in savesInFlight, ok \in BOOLEAN :
        /\ savesInFlight' = savesInFlight \ {prefs}
        /\ storedPrefs' = IF ok THEN {prefs} ELSE storedPrefs
        /\ UNCHANGED << appAll, recVars, btnVars, speechVars, speechRate,
                        speechPitch, settingsOp >>

SettingsNext ==
    \/ MountButton
    \/ UnmountButton
    \/ SetSpeechRate
    \/ SetSpeechPitch
    \/ SaveDone

SettingsSpec == Init /\ [][SettingsNext]_vars

(***************************************************************************)
(* Specifications: the application, and the voice components.              *)
(***************************************************************************)
Next ==
    \/ LoadSampleModel
    \/ ParseSchemaResponse
    \/ OpenModal
    \/ CloseModal
    \/ LoadCustomModel
    \/ CustomParseResponse
    \/ Navigate
    \/ FormFieldInput
    \/ HandleSubmit
    \/ ForwardResponse
    \/ SendMessage
    \/ ChatResponse
    \/ OrphanChatResponse
    \/ ClearConversation
    \/ FormCompleteOk

Spec == Init /\ [][Next]_vars

\* the application without the conversation, with the modal's Load button
\* pressed up to twice in a row: model loads overlap each other and forward
\* calls
NavNext ==
    \/ LoadSampleModel
    \/ ParseSchemaResponse
    \/ OpenModal
    \/ CloseModal
    \/ LoadCustomModelAgain
    \/ CustomParseResponse
    \/ Navigate
    \/ FormFieldInput
    \/ HandleSubmit
    \/ ForwardResponse

NavSpec == Init /\ [][NavNext]_vars

TypeOK ==
    /\ currentView \in {"home", "form", "chat", "results"}
    /\ schema \in Schemas \cup {NoSchema}
    /\ loading \in BOOLEAN
    /\ orphans \in 0..MaxOrphans
    /\ fwdCalls \in 0..MaxForwards
    /\ UserTurns(messages) <= MaxTurns
    /\ parsePending + customPending \in 0..MaxParse
    /\ recording \in Recordings \cup {NoRecording}
    /\ utterances \in 0..MaxUtterances

(***************************************************************************)
(* Properties.                                                             *)
(***************************************************************************)
\* a resolved response of the mounted conversation was just handled
ChatTurnDone(op) == op.op \in {"chatTurn", "chatComplete"} /\ op.flag

\* M with the keys of U overwritten by U's values
MergeKeys(M, U) ==
    Obj([k \in Keys(M) \cup Keys(U) |->
            IF k \in Keys(U) THEN U.o[k] ELSE M.o[k]])

\* C1: a chat response whose updated ValueMap holds only (and at least one)
\* keys of the current ValueMap leaves every other key with its old value and
\* gives the keys of the update the update's values.
C1_PartialUpdateMerged ==
    [][ ( /\ ChatTurnDone(lastOp')
          /\ IsObj(lastOp'.val)
          /\ IsObj(formData)
          /\ Keys(lastOp'.val) # {}
          /\ Keys(lastOp'.val) \subseteq Keys(formData) )
        => formData' = MergeKeys(formData, lastOp'.val) ]_vars

\* C2: from the reset until the next user send the history is empty, the
\* ValueMap has no entries, isComplete is false and there are no follow-up
\* questions, whatever was outstanding when the reset happened.
C2_ResetStaysCleared ==
    resetOpen =>
        /\ Len(messages) = 0
        /\ formData = EmptyObj
        /\ ~isComplete
        /\ followUpQuestions = 0

\* C3: no state has the conversation's history discarded while the values
\* collected during it are retained, and no step empties the ValueMap while
\* the history is kept.
C3_NoPartialReset ==
    /\ [](~(collected /\ UserTurns(messages) = 0))
    /\ [][ (formData # EmptyObj /\ formData' = EmptyObj)
           => UserTurns(messages') = 0 ]_vars

\* a value counts as not written: absent, null or the empty string
Unwritten(v) == v \in {Undefined, Null, Str("")}

\* the required top-level fields without a written value
MissingRequired(id, data) ==
    { f.name : f \in { g \in SeqRange(SchemaFields(id)) :
                         g.required /\ Unwritten(Get(data, g.name)) } }

\* C4: validate reports a required top-level field exactly when no value (or
\* the empty string) has been written at it; false and 0 are values.
C4_ValidateExact ==
    lastOp.op = "handleSubmit" =>
        validationErrors = MissingRequired(schema, lastOp.val)

\* the paths of the required children without a written value, of the nested
\* fields that are present or themselves required
MissingNested(id, data) ==
    UNION { { << f.name, c.name >> :
                c \in { d \in SeqRange(f.nested_schema.fields) :
                          d.required
                          /\ Unwritten(Get(Get(data, f.name), d.name)) } } :
            f \in { g \in SeqRange(SchemaFields(id)) :
                      g.type = "object"
                      /\ (g.required \/ ~Unwritten(Get(data, g.name))) } }

\* C5: every required child without a value, of a nested field that is
\* present or required, is among the reported paths (itself or through its
\* parent), so validate reports nothing only if no such child is missing.
C5_ValidateNested ==
    lastOp.op = "handleSubmit" =>
        LET reported == { << n >> : n \in validationErrors }
        IN  \A p \in MissingNested(schema, lastOp.val) :
               p \in reported \/ << p[1] >> \in reported

\* C6: a forward request is posted only by a submit whose validateForm ran on
\* the ValueMap that is sent and reported nothing.
C6_ValidateBeforeForward ==
    [][ posts' # posts =>
          /\ lastOp'.op = "handleSubmit"
          /\ lastOp'.val = dfData
          /\ fwdReqs' # fwdReqs
          /\ validationErrors' = {}
          /\ ValidateForm(schema, lastOp'.val) = {} ]_vars

C6_Witness ==
    /\ lastOp.op = "handleSubmit"
    /\ lastOp.flag
    /\ fwdReqs # {}
    /\ posts = 1

\* C7: the completion signal (isComplete, the onComplete callback and its
\* 'Form Complete' alert) is raised only when validate reports nothing on
\* the resulting ValueMap.
C7_CompletionValidated ==
    ( \/ lastOp.op = "chatComplete"
      \/ lastOp.op = "orphanResponse" /\ lastOp.flag )
    => IsObj(formData) /\ ValidateForm(schema, formData) = {}

\* C8: right after a field write, a read at the written path gives the
\* written value, in the form's map and in the application's map.
C8_ReadAfterWrite ==
    lastOp.op = "setField" =>
        /\ ReadPath(dfData, lastOp.path) = lastOp.val
        /\ ReadPath(formData, lastOp.path) = lastOp.val

\* a nested child was written while its parent had no other entry
C8_Witness ==
    /\ lastOp.op = "setField"
    /\ Len(lastOp.path) = 2
    /\ IsObj(Get(dfData, lastOp.path[1]))
    /\ Keys(Get(dfData, lastOp.path[1])) = {lastOp.path[2]}
    /\ ReadPath(formData, lastOp.path) = lastOp.val

\* C9: after a forward call failed at transport level, the live result is an
\* envelope of that call with success = false and the sentinel status.
C9_TransportFailureEnvelope ==
    (lastOp.op = "forwardResponse" /\ ~lastOp.flag) =>
        /\ apiResults # NoResult
        /\ apiResults.success = FALSE
        /\ apiResults.status_code = SentinelStatus
        /\ apiResults.seq = lastOp.val.n

C11_LiveResultIsLatest ==
    (lastOp.op = "forwardResponse" /\ apiResults # NoResult) =>
        apiResults.seq = lastOp.val.n

\* a model load has just succeeded
ModelLoadDone(op) == op.op \in {"parseSchema", "customParse"} /\ op.flag

\* C12: right after a model load succeeded, schema is the parsed descriptor,
\* the ValueMap of the application and of the form has no entries, no result
\* is live, no conversation turn is kept and the form view is shown.
C12_LoadReplacesAll ==
    [][ ModelLoadDone(lastOp') =>
          /\ schema' = lastOp'.path[1]
          /\ formData' = EmptyObj
          /\ dfData' = EmptyObj
          /\ apiResults' = NoResult
          /\ messages' = << >>
          /\ currentView' = "form" ]_vars

\* a model was loaded over a ValueMap that had entries
C12_Witness ==
    /\ ModelLoadDone(lastOp)
    /\ lastOp.val = Bool(TRUE)
    /\ formData = EmptyObj
    /\ schema = lastOp.path[1]

\* C13: the response of a chat request that was issued before a reset
\* changes neither the ValueMap, the history nor the completion signal.
C13_StaleResponseDiscarded ==
    [][ (resetOpen /\ isLoading /\ ChatTurnDone(lastOp')) =>
          /\ formData' = formData
          /\ messages' = messages
          /\ isComplete' = isComplete
          /\ alertPending' = alertPending ]_vars

C15_RecordingPlaybackExclusive == ~(svcIsRecording /\ isPlaying)

\* C16: at most one utterance is queued or being spoken: an earlier one has
\* been stopped or has finished when a new one is handed to the platform.
C16_OneSynthesis == Len(speechQueue) <= 1

\* C17: when no Recording object is prepared or recording and no start, stop
\* or transcription is going on, no recorded audio file is left.
C17_AudioFileReleased ==
    ( /\ ~svcIsRecording
      /\ \A r \in Recordings : recState[r] \notin {"prepared", "recording"}
      /\ startCalls = {}
      /\ stopCalls = {}
      /\ transcribeCalls = {} )
    => files = {}

\* C18: while the service is recording and no stop is under way, a max-time
\* timer is armed.
C18_MaxTimeArmed == (svcIsRecording /\ stopCalls = {}) => maxTimeTimer

\* C19: whenever isRecording is true the service holds a recording instance.
C19_RecordingHeld == svcIsRecording => recording # NoRecording

\* C20: a failed model load raises its alert, returns loading to false and
\* leaves schema, ValueMap, result and view as they were; a submit that
\* validate rejects raises its alert, marks exactly the required fields
\* without a written value, posts nothing and leaves the ValueMap as it was.
C20_ErrorsSurfaced ==
    [][ /\ ( /\ lastOp'.op \in {"parseSchema", "customParse"}
             /\ ~lastOp'.flag )
           => /\ lastAlert' = "loadError"
              /\ ~loading'
              /\ UNCHANGED << schema, formData, apiResults, currentView >>
        /\ ( /\ lastOp'.op = "handleSubmit"
             /\ ~lastOp'.flag )
           => /\ lastAlert' = "validationError"
              /\ validationErrors' = MissingRequired(schema, dfData)
              /\ UNCHANGED << posts, fwdReqs, formData, dfData >> ]_vars

\* r clamped to the interval from lo to hi
ClampedTo(lo, hi, r) == IF r < lo THEN lo ELSE IF r > hi THEN hi ELSE r

\* C21: the speech rate lies in [0.1, 2.0] and the pitch in [0.5, 2.0] in
\* every state reached through initialize, loadUserPreferences and the two
\* setters; while setSpeechRate(r) is the last settings call the rate is r
\* clamped to its range, and likewise the pitch after setSpeechPitch(p).
C21_SettingsInRange ==
    /\ speechRate \in RateLow..RateHigh
    /\ speechPitch \in PitchLow..PitchHigh
    /\ settingsOp.op = "setSpeechRate"
         => speechRate = ClampedTo(RateLow, RateHigh, settingsOp.arg)
    /\ settingsOp.op = "setSpeechPitch"
         => speechPitch = ClampedTo(PitchLow, PitchHigh, settingsOp.arg)

\* a rate above the range was set and clamped after an earlier save of
\* other settings had reached the storage
C21_Witness ==
    /\ settingsOp.op = "setSpeechRate"
    /\ settingsOp.arg > RateHigh
    /\ speechRate = RateHigh
    /\ storedPrefs # {}
    /\ \E p \in storedPrefs : p.speechRate # speechRate

\* chat requests that have not returned: the one of the mounted
\* ChatInterface and those of instances that have been unmounted
ChatOutstanding == orphans + (IF isLoading THEN 1 ELSE 0)

\* C22: at most one chat request and at most one forward request is
\* outstanding at any time.
C22_OneRequestPerKind ==
    /\ ChatOutstanding <= 1
    /\ Cardinality(fwdReqs) <= 1

\* s is an initial part of t
IsPrefix(s, t) == Len(s) <= Len(t) /\ SubSeq(t, 1, Len(s)) = s

\* C23: no step other than the full-conversation reset removes or edits a
\* turn of a history that holds a user turn; a send appends the user turn, and the reply or the
\* failure that ends it appends exactly one assistant turn.
C23_HistoryAppendOnly ==
    [][ /\ UserTurns(messages) > 0 /\ lastOp'.op # "clearConversation"
             => IsPrefix(messages, messages')
        /\ lastOp'.op = "sendMessage" /\ lastOp' # lastOp
             => messages' = Append(messages, "user")
        /\ lastOp'.op \in {"chatTurn", "chatComplete"}
             => messages' = Append(messages, "assistant") ]_vars

\* maps M and N agree on every key of M other than k, and N has no key
\* beyond those of M and k
SameExcept(M, N, k) ==
    /\ IsObj(N)
    /\ Keys(N) = (IF IsObj(M) THEN Keys(M) ELSE {}) \cup {k}
    /\ \A y \in Keys(N) \ {k} : N.o[y] = M.o[y]

\* C25: a field write changes only its own path: every other top-level
\* field keeps its value, a write to a child of a nested field keeps every
\* sibling child as well, and the written path holds the written value
\* whatever it held before.
C25_WriteFrame ==
    [][ lastOp'.op = "setField" =>
          LET path == lastOp'.path
          IN  /\ SameExcept(dfData, dfData', path[1])
              /\ Len(path) = 2 /\ IsObj(Get(dfData, path[1]))
                   => SameExcept(Get(dfData, path[1]),
                                 Get(dfData', path[1]), path[2])
              /\ ReadPath(dfData', path) = lastOp'.val
              /\ formData' = dfData' ]_vars

\* a child of a nested field was overwritten while a sibling child and
\* another top-level field held values
C25_Witness ==
    /\ lastOp.op = "setField"
    /\ Len(lastOp.path) = 2
    /\ Cardinality(Keys(dfData)) >= 2
    /\ IsObj(Get(dfData, lastOp.path[1]))
    /\ Cardinality(Keys(Get(dfData, lastOp.path[1]))) >= 2

\* C26: the application's formData is a mapping, never null or undefined,
\* in every reachable state.
C26_ValueMapIsMapping == IsObj(formData)

\* the step in which the mounted ChatInterface handles a failed
\* sendChatMessage
ChatFailureStep == isLoading /\ lastOp'.op = "chatTurn" /\ ~lastOp'.flag

\* C27: a failed chat call leaves the ValueMap, isComplete, the follow-up
\* questions and the conversation id as they were, appends one assistant
\* error turn after the user turn, and sets isLoading to false.
C27_FailedChatFrame ==
    [][ ChatFailureStep =>
          /\ formData' = formData
          /\ isComplete' = isComplete
          /\ followUpQuestions' = followUpQuestions
          /\ conversationId' = conversationId
          /\ Len(messages) > 0
          /\ messages[Len(messages)] = "user"
          /\ messages' = Append(messages, "error")
          /\ ~isLoading' ]_vars

\* C28: the current view is 'form' or 'chat' only if a schema is loaded,
\* and 'results' only if a result is live.
C28_NavigationInvariant ==
    /\ currentView \in {"form", "chat"} => schema # NoSchema
    /\ currentView = "results" => apiResults # NoResult

\* the results view shows the result of a second forward call, whose
\* response arrived after a model load had come back while the call was
\* outstanding and had emptied the ValueMap that was submitted
C28_Witness ==
    /\ currentView = "results"
    /\ lastOp.op = "forwardResponse"
    /\ lastOp.flag
    /\ apiResults.seq > 1
    /\ formData = EmptyObj
    /\ ValidateForm(schema, formData) # {}

\* no startRecording, stopRecording or transcribeAudio call is awaited
VoiceIdle == startCalls = {} /\ stopCalls = {} /\ transcribeCalls = {}

\* C29: whenever no start, stop or transcribe operation is in flight, the
\* mounted VoiceButton's isRecording equals VoiceService.isRecording and
\* its isTranscribing is false.
C29_ButtonAgreesWithService ==
    (btnMounted /\ VoiceIdle) =>
        /\ btnIsRecording = svcIsRecording
        /\ ~isTranscribing

\* C30: the stop of a recording instance is invoked at most once, and no
\* second instance exists while an earlier one is still preparing or
\* recording.
C30_StartedAndStoppedOnce ==
    /\ \A c, d \in stopCalls : c.rec = d.rec => c = d
    /\ Cardinality({ r \in Recordings :
                       recState[r] \in {"prepared", "recording"} }) <= 1

====
